---- MODULE Spec2Model ----
(***************************************************************************)
(* Model of quads_lib.quads: the QuadsBase transport primitive             *)
(* (_make_request and its error classification), the retry policy mounted  *)
(* on the session in QuadsBase.__init__, the login/logout token state of   *)
(* QuadsApi and the __enter__/__exit__ scoped use of a client.             *)
(*                                                                         *)
(* One call of the client is a sequence of steps: a Start action (the      *)
(* caller invokes a method, the request is prepared from the session       *)
(* headers), then one environment step per network attempt (Respond: the   *)
(* server answers; ConnectFail: no answer is received).  The step that     *)
(* ends the last attempt also runs the rest of the method (classification, *)
(* decoding, token and header updates, session.close()).                   *)
(***************************************************************************)
EXTENDS Integers, Sequences, FiniteSets, TLC

\* ---- bounds of the model ------------------------------------------------
NumTokens == 2
NumMessages == 1
NumThreads == 2
MaxPairs == 2

\* ---- JSON values ----------------------------------------------------------
JNull == <<"null">>
JInt(n) == <<"int", n>>
JStr(s) == <<"str", s>>
JObj(f) == <<"obj", f>>
JBool(b) == <<"bool", b>>
JList(l) == <<"list", l>>

\* the characters of the strings "true" and "false"
TrueStr == <<"t", "r", "u", "e">>
FalseStr == <<"f", "a", "l", "s", "e">>

Tok(i) == JStr(<<"T", i>>)
Msg(i) == JStr(<<"M", i>>)

EmptyObj == [k \in {} |-> JNull]

\* dict.get(key): the value, or None when the key is absent
Get(o, k) == IF k \in DOMAIN o THEN o[k] ELSE JNull

IsObj(v) == v[1] = "obj"

\* A response body as text: either text that is not JSON, or the
\* serialisation of a JSON value.
RawText == <<"raw">>
Ser(v) == <<"json", v>>

\* Response.json(): the decoded value, or JSONDecodeError
Json(b) == IF b[1] = "json" THEN [ok |-> TRUE, val |-> b[2]]
                            ELSE [ok |-> FALSE, val |-> JNull]

ObjBodies ==
    {EmptyObj, [status_code |-> JInt(200)], [status_code |-> JInt(201)]}
    \cup {[message |-> Msg(i)] : i \in 1..NumMessages}
    \cup {[status_code |-> JInt(201), auth_token |-> Tok(i)] : i \in 1..NumTokens}

Bodies ==
    {RawText, Ser(JStr(TrueStr)), Ser(JStr(FalseStr)), Ser(JBool(TRUE)),
     Ser(JList(<<JStr(TrueStr)>>))}
    \cup {Ser(JObj(o)) : o \in ObjBodies}

Statuses == {200, 400, 404, 429, 500, 502, 503, 504}

\* The Retry-After header only enters the retry decision for the statuses
\* urllib3 lists in RETRY_AFTER_STATUS_CODES; it is enumerated for 429.
RetryAfterChoices(s) == IF s = 429 THEN BOOLEAN ELSE {FALSE}

Response(s, b) == [status |-> s, body |-> b]

Verbs == {"GET", "POST", "PATCH", "DELETE"}
Schemes == {"http", "https"}

\* ---- exceptions -----------------------------------------------------------
ServerErrorMessage == JStr("Check the flask server logs")
ParseErrorMessage == JStr("Failed to parse response")

Ok(v) == [kind |-> "ok", msg |-> JNull, value |-> v, decoded |-> TRUE]
Raise(k, m, d) == [kind |-> k, msg |-> m, value |-> JNull, decoded |-> d]

\* ---- retry policy (Retry(total=5, backoff_factor=1,                     ----
\* ---- status_forcelist=[502, 503, 504]) mounted on "http://")            ----
RetryTotal == 5
StatusForcelist == {502, 503, 504}
\* Retry.DEFAULT_ALLOWED_METHODS: allowed_methods is not passed
AllowedMethods == {"HEAD", "GET", "PUT", "DELETE", "OPTIONS", "TRACE"}
\* Retry.RETRY_AFTER_STATUS_CODES: respect_retry_after_header is not passed
RetryAfterStatusCodes == {413, 429, 503}
MountedPrefix == "http"

\* The adapter that serves a URL: the mounted one for http://, the session's
\* default HTTPAdapter (max_retries = 0, no status_forcelist) for https://
\* (variant: a policy of two retries)
AdapterTotalTwo(sch) == IF sch = MountedPrefix THEN 2 ELSE 0

AdapterTotal(sch) == IF sch = MountedPrefix THEN RetryTotal ELSE 0

\* (variant: the status_forcelist is in force for every scheme)
AdapterForcelistAnyScheme(sch) == StatusForcelist

AdapterForcelist(sch) == IF sch = MountedPrefix THEN StatusForcelist ELSE {}

\* Retry.is_retry(method, status_code, has_retry_after), with `total` the
\* number of retries left
\* (variant: every 5xx status is retried)
IsRetryAny5xx(sch, method, status, hasRetryAfter, total) ==
    /\ method \in AllowedMethods
    /\ \/ status \in AdapterForcelist(sch)
       \/ sch = MountedPrefix /\ status >= 500
       \/ /\ total # 0
          /\ hasRetryAfter
          /\ status \in RetryAfterStatusCodes

\* (variant: the method is not looked at)
IsRetryAnyMethod(sch, method, status, hasRetryAfter, total) ==
    \/ status \in AdapterForcelist(sch)
    \/ /\ total # 0
       /\ hasRetryAfter
       /\ status \in RetryAfterStatusCodes

\* (variant: the status_forcelist is not looked at)
IsRetryNoForcelist(sch, method, status, hasRetryAfter, total) ==
    /\ method \in AllowedMethods
    /\ total # 0
    /\ hasRetryAfter
    /\ status \in RetryAfterStatusCodes

IsRetry(sch, method, status, hasRetryAfter, total) ==
    /\ method \in AllowedMethods
    /\ \/ status \in AdapterForcelist(sch)
       \/ /\ total # 0
          /\ hasRetryAfter
          /\ status \in RetryAfterStatusCodes

\* ---- _make_request: classification of the response handed back by the ----
\* ---- session                                                           ----
\* (variant: the body is decoded before the status is looked at)
MakeRequestDecodesFirst(r) ==
    IF ~Json(r.body).ok THEN Raise("JSONDecodeError", JNull, TRUE)
    ELSE IF r.status = 500 THEN Raise("APIServerException", ServerErrorMessage, TRUE)
    ELSE IF r.status = 400 THEN
        IF ~IsObj(Json(r.body).val) THEN Raise("AttributeError", JNull, TRUE)
        ELSE Raise("APIBadRequest", Get(Json(r.body).val[2], "message"), TRUE)
    ELSE Ok(Json(r.body).val)

\* (variant: the decoding failure of a 400 body is not caught)
MakeRequestNoFallback(r) ==
    IF r.status = 500 THEN Raise("APIServerException", ServerErrorMessage, FALSE)
    ELSE IF ~Json(r.body).ok THEN Raise("JSONDecodeError", JNull, TRUE)
    ELSE IF r.status = 400 THEN
        IF ~IsObj(Json(r.body).val) THEN Raise("AttributeError", JNull, TRUE)
        ELSE Raise("APIBadRequest", Get(Json(r.body).val[2], "message"), TRUE)
    ELSE Ok(Json(r.body).val)

\* (variant: every status from 400 up is classified as a bad request)
MakeRequestStrict(r) ==
    IF r.status = 500 THEN Raise("APIServerException", ServerErrorMessage, FALSE)
    ELSE IF r.status >= 400 THEN
        IF ~Json(r.body).ok THEN Raise("APIBadRequest", ParseErrorMessage, TRUE)
        ELSE IF ~IsObj(Json(r.body).val) THEN Raise("AttributeError", JNull, TRUE)
        ELSE Raise("APIBadRequest", Get(Json(r.body).val[2], "message"), TRUE)
    ELSE IF ~Json(r.body).ok THEN Raise("JSONDecodeError", JNull, TRUE)
    ELSE Ok(Json(r.body).val)

MakeRequest(r) ==
    IF r.status = 500 THEN Raise("APIServerException", ServerErrorMessage, FALSE)
    ELSE IF r.status = 400 THEN
        IF ~Json(r.body).ok THEN Raise("APIBadRequest", ParseErrorMessage, TRUE)
        ELSE IF ~IsObj(Json(r.body).val) THEN Raise("AttributeError", JNull, TRUE)
        ELSE Raise("APIBadRequest", Get(Json(r.body).val[2], "message"), TRUE)
    ELSE IF ~Json(r.body).ok THEN Raise("JSONDecodeError", JNull, TRUE)
    ELSE Ok(Json(r.body).val)

\* ---- session state ------------------------------------------------------
VARIABLES
    scheme,     \* scheme of base_url
    token,      \* self.token
    headers,    \* self.session.headers
    poolOpen,   \* the session's adapters hold pooled connections
    ctx,        \* "out" or "body": inside the body of a with-block
    pc,         \* "idle", or "wait": a call is waiting for the network
    call,       \* the call in progress
    result,     \* how the last call ended, until the next call starts
    thr,        \* the threads that share the client (SpecThreads)
    fn          \* the request a method builds and sends (SpecUrl, SpecCatalog)

vars == <<scheme, token, headers, poolOpen, ctx, pc, call, result, thr, fn>>

\* what the single-threaded client leaves alone
aux == <<thr, fn>>
NoThreads == <<>>
NoFn == [kind |-> "none"]

NoHeader == <<"none", JNull>>
Bearer(t) == <<"Bearer", t>>
Basic == <<"Basic", JStr("credentials")>>

\* requests.utils.default_headers()
DefaultHeaders == [h \in {"User-Agent", "Accept"} |-> <<"default", JStr(h)>>]

SessionAuth(hs) == IF "Authorization" \in DOMAIN hs THEN hs["Authorization"] ELSE NoHeader

\* headers.update({"Authorization": v})
HeadersUpdate(hs, v) ==
    [h \in DOMAIN hs \cup {"Authorization"} |->
        IF h = "Authorization" THEN v ELSE hs[h]]

\* headers.clear()
HeadersClear == [h \in {} |-> NoHeader]

NoBody == <<"none">>
NoneRetried == [status |-> 0, retryAfter |-> FALSE]

\* call.all503, result.all503: every earlier attempt of the call was
\* answered with status 503.  call.retried: the last response of the call
\* that was answered by a retry.  result.status, result.body: the response
\* the call ended on (0: none was received).
NoCall == [op |-> "none", method |-> "none", via |-> "none", reqAuth |-> NoHeader,
           attempts |-> 0, total |-> 0, all503 |-> TRUE, retried |-> NoneRetried]

\* result.tokenBefore: the token a login or logout call found stored
NoResult == [op |-> "none", method |-> "none", via |-> "none",
             attempts |-> 0, all503 |-> TRUE, status |-> 0, body |-> NoBody,
             tokenBefore |-> JNull,
             out |-> Raise("none", JNull, FALSE)]

Init ==
    /\ scheme \in Schemes
    /\ token = JNull
    /\ headers = DefaultHeaders
    /\ poolOpen = FALSE
    /\ ctx = "out"
    /\ pc = "idle"
    /\ call = NoCall
    /\ result = NoResult
    /\ thr = NoThreads
    /\ fn = NoFn

\* (variant: the Basic credentials are attached to every request)
StartBasicAuth(op, method, via, auth) ==
    /\ pc = "idle"
    /\ pc' = "wait"
    /\ call' = [op |-> op, method |-> method, via |-> via,
                reqAuth |-> Basic,
                attempts |-> 0, total |-> AdapterTotal(scheme), all503 |-> TRUE,
                retried |-> NoneRetried]
    /\ result' = NoResult
    /\ UNCHANGED <<scheme, token, headers, poolOpen, ctx, aux>>

\* session.request(method, url, ...): the request is prepared from the
\* session headers, an auth= argument overrides the Authorization header
Start(op, method, via, auth) ==
    /\ pc = "idle"
    /\ pc' = "wait"
    /\ call' = [op |-> op, method |-> method, via |-> via,
                reqAuth |-> IF auth THEN Basic ELSE SessionAuth(headers),
                attempts |-> 0, total |-> AdapterTotal(scheme), all503 |-> TRUE,
                retried |-> NoneRetried]
    /\ result' = NoResult
    /\ UNCHANGED <<scheme, token, headers, poolOpen, ctx, aux>>

\* get / post / patch / delete and the catalog methods built on them
Request(method) == Start("request", method, "direct", FALSE)

Register == Start("register", "POST", "direct", FALSE)

Login == Start("login", "POST", "direct", TRUE)

Logout == Start("logout", "POST", "direct", FALSE)

\* is_available(hostname, data): self.get(f"{endpoint}?{url_params}")
IsAvailable == Start("is_available", "GET", "direct", FALSE)

\* __enter__: self.login()
Enter == ctx = "out" /\ Start("login", "POST", "enter", TRUE)

\* __exit__: self.logout(); self.session.close()
Exit == ctx = "body" /\ Start("logout", "POST", "exit", FALSE)

\* What the method does with the outcome of its request: the outcome it
\* ends with, and the token and headers it leaves.
\* (variant: a login keeps the token that is already stored)
LoginEndKeepsToken(r) ==
    LET j == Json(r.body) IN
    IF ~j.ok THEN [out |-> Raise("JSONDecodeError", JNull, TRUE), token |-> token, headers |-> headers]
    ELSE IF ~IsObj(j.val) THEN [out |-> Raise("AttributeError", JNull, TRUE), token |-> token, headers |-> headers]
    ELSE IF Get(j.val[2], "status_code") = JInt(201) /\ token = JNull
         THEN [out |-> Ok(j.val), token |-> Get(j.val[2], "auth_token"),
               headers |-> HeadersUpdate(headers, Bearer(Get(j.val[2], "auth_token")))]
    ELSE [out |-> Ok(j.val), token |-> token, headers |-> headers]

\* (variant: a login also looks at the HTTP status of the response)
LoginEndChecksHttpStatus(r) ==
    LET j == Json(r.body) IN
    IF ~j.ok THEN [out |-> Raise("JSONDecodeError", JNull, TRUE), token |-> token, headers |-> headers]
    ELSE IF ~IsObj(j.val) THEN [out |-> Raise("AttributeError", JNull, TRUE), token |-> token, headers |-> headers]
    ELSE IF Get(j.val[2], "status_code") = JInt(201) /\ r.status < 400
         THEN [out |-> Ok(j.val), token |-> Get(j.val[2], "auth_token"),
               headers |-> HeadersUpdate(headers, Bearer(Get(j.val[2], "auth_token")))]
    ELSE [out |-> Ok(j.val), token |-> token, headers |-> headers]

LoginEnd(r) ==
    LET j == Json(r.body) IN
    IF ~j.ok THEN [out |-> Raise("JSONDecodeError", JNull, TRUE), token |-> token, headers |-> headers]
    ELSE IF ~IsObj(j.val) THEN [out |-> Raise("AttributeError", JNull, TRUE), token |-> token, headers |-> headers]
    ELSE IF Get(j.val[2], "status_code") = JInt(201)
         THEN [out |-> Ok(j.val), token |-> Get(j.val[2], "auth_token"),
               headers |-> HeadersUpdate(headers, Bearer(Get(j.val[2], "auth_token")))]
    ELSE [out |-> Ok(j.val), token |-> token, headers |-> headers]

\* (variant: logout resets the token and leaves the session headers)
LogoutEndKeepsHeaders(r) ==
    LET o == MakeRequest(r) IN
    IF o.kind # "ok" THEN [out |-> o, token |-> token, headers |-> headers]
    ELSE IF ~IsObj(o.value) THEN [out |-> Raise("AttributeError", JNull, TRUE), token |-> token, headers |-> headers]
    ELSE IF Get(o.value[2], "status_code") = JInt(200)
         THEN [out |-> o, token |-> JNull, headers |-> headers]
    ELSE [out |-> o, token |-> token, headers |-> headers]

LogoutEnd(r) ==
    LET o == MakeRequest(r) IN
    IF o.kind # "ok" THEN [out |-> o, token |-> token, headers |-> headers]
    ELSE IF ~IsObj(o.value) THEN [out |-> Raise("AttributeError", JNull, TRUE), token |-> token, headers |-> headers]
    ELSE IF Get(o.value[2], "status_code") = JInt(200)
         THEN [out |-> o, token |-> JNull, headers |-> HeadersClear]
    ELSE [out |-> o, token |-> token, headers |-> headers]

\* (variant: a call that fails drops the stored token)
RequestEndDropsToken(r) ==
    [out |-> MakeRequest(r),
     token |-> IF MakeRequest(r).kind = "ok" THEN token ELSE JNull,
     headers |-> headers]

RequestEnd(r) == [out |-> MakeRequest(r), token |-> token, headers |-> headers]

\* p occurs in s as a contiguous run of characters
IsSubstring(p, s) ==
    \E i \in 0..(Len(s) - Len(p)) : SubSeq(s, i + 1, i + Len(p)) = p

\* `"true" in v`: substring of a str, element of a list, key of a dict;
\* TypeError for a value that is no container (bool, int, None)
InTrue(v) ==
    IF v[1] = "str" THEN Ok(JBool(IsSubstring(TrueStr, v[2])))
    ELSE IF v[1] = "list" THEN Ok(JBool(\E i \in 1..Len(v[2]) : v[2][i] = JStr(TrueStr)))
    ELSE IF v[1] = "obj" THEN Ok(JBool("true" \in DOMAIN v[2]))
    ELSE Raise("TypeError", JNull, TRUE)

\* is_available: return True if "true" in json_response else False
IsAvailableEnd(r) ==
    LET o == MakeRequest(r) IN
    [out |-> IF o.kind = "ok" THEN InTrue(o.value) ELSE o,
     token |-> token, headers |-> headers]

MethodEnd(op, r) ==
    IF op = "login" THEN LoginEnd(r)
    ELSE IF op = "logout" THEN LogoutEnd(r)
    ELSE IF op = "is_available" THEN IsAvailableEnd(r)
    ELSE RequestEnd(r)

\* __exit__ runs session.close() after logout() has returned
ExitCloses(e) == e.out.kind = "ok"

\* The call ends with e, after n attempts; status is that of the last
\* response (0: none received).
Finish(e, n, status, body) ==
    /\ pc' = "idle"
    /\ call' = NoCall
    /\ token' = e.token
    /\ headers' = e.headers
    /\ result' = [op |-> call.op, method |-> call.method, via |-> call.via,
                  attempts |-> n, all503 |-> call.all503, status |-> status,
                  body |-> body,
                  tokenBefore |-> IF call.op \in {"login", "logout"} THEN token ELSE JNull,
                  out |-> e.out]
    /\ ctx' = IF call.via = "enter" THEN (IF e.out.kind = "ok" THEN "body" ELSE "out")
              ELSE IF call.via = "exit" THEN "out"
              ELSE ctx
    /\ poolOpen' = IF call.via = "exit" /\ ExitCloses(e) THEN FALSE ELSE TRUE
    /\ UNCHANGED <<scheme, aux>>

Unchanged(k, m) == [out |-> Raise(k, m, FALSE), token |-> token, headers |-> headers]

\* (variant: the retries run out one attempt later)
ExhaustedLate(total) == total < 0

\* Retry.increment(): one retry is used up; MaxRetryError when none is left
Exhausted(total) == total - 1 < 0

\* One network attempt that ends with a response from the server
\* (HTTPConnectionPool.urlopen under the adapter's Retry object).
Respond ==
    /\ pc = "wait"
    /\ \E s \in Statuses : \E ra \in RetryAfterChoices(s) :
        IF IsRetry(scheme, call.method, s, ra, call.total)
        THEN IF Exhausted(call.total)
             THEN Finish(Unchanged("RetryError", JNull), call.attempts + 1, s, NoBody)
             ELSE /\ call' = [call EXCEPT !.attempts = @ + 1, !.total = @ - 1,
                                          !.all503 = @ /\ s = 503,
                                          !.retried = [status |-> s, retryAfter |-> ra]]
                  /\ poolOpen' = TRUE
                  /\ UNCHANGED <<scheme, token, headers, ctx, pc, result, aux>>
        ELSE \E b \in Bodies :
                Finish(MethodEnd(call.op, Response(s, b)), call.attempts + 1, s, b)

\* (variant: a failed connection ends the call at once)
ConnectFailNoRetry ==
    /\ pc = "wait"
    /\ Finish(Unchanged("ConnectionError", JNull), call.attempts + 1, 0, NoBody)

\* One network attempt on which no connection is made: counted against
\* `total` for every method.
ConnectFail ==
    /\ pc = "wait"
    /\ IF Exhausted(call.total)
       THEN Finish(Unchanged("ConnectionError", JNull), call.attempts + 1, 0, NoBody)
       ELSE /\ call' = [call EXCEPT !.attempts = @ + 1, !.total = @ - 1,
                                    !.all503 = FALSE]
            /\ UNCHANGED <<scheme, token, headers, poolOpen, ctx, pc, result, aux>>

Next ==
    \/ \E m \in Verbs : Request(m)
    \/ Register
    \/ Login
    \/ Logout
    \/ IsAvailable
    \/ Enter
    \/ Exit
    \/ Respond
    \/ ConnectFail

Spec == Init /\ [][Next]_vars

\* ---- threads sharing one client ------------------------------------------
\* Each thread runs login(), logout() and catalog requests on the same
\* QuadsApi object; there is no lock in the class, so the threads interleave
\* between the statements of login and logout.
Threads == 1..NumThreads

\* what the threads leave alone
single == <<scheme, poolOpen, ctx, pc, call, result, fn>>

\* thr[t].pc: "idle", or the statement the thread is about to run.
\* thr[t].reqAuth: the Authorization header of the request it has sent;
\* thr[t].tokenAtSend: self.token when that request was prepared;
\* thr[t].tok: the auth_token of the body login() has decoded.
IdleThread == [pc |-> "idle", reqAuth |-> NoHeader, tokenAtSend |-> JNull, tok |-> JNull]

InitThreads ==
    /\ scheme = "http"
    /\ token = JNull
    /\ headers = DefaultHeaders
    /\ poolOpen = FALSE
    /\ ctx = "out"
    /\ pc = "idle"
    /\ call = NoCall
    /\ result = NoResult
    /\ fn = NoFn
    /\ thr = [t \in Threads |-> IdleThread]

\* login(): self.session.post(endpoint, auth=self.auth, verify=False)
TLoginSend(t) ==
    /\ thr[t].pc = "idle"
    /\ thr' = [thr EXCEPT ![t] = [pc |-> "login_recv", reqAuth |-> Basic,
                                  tokenAtSend |-> token, tok |-> JNull]]
    /\ UNCHANGED <<token, headers, single>>

\* login(): json_response = _response.json(); the test of status_code
TLoginRecv(t) ==
    /\ thr[t].pc = "login_recv"
    /\ \/ \E i \in 1..NumTokens :
            thr' = [thr EXCEPT ![t].pc = "login_token", ![t].tok = Tok(i)]
       \/ thr' = [thr EXCEPT ![t] = IdleThread]
    /\ UNCHANGED <<token, headers, single>>

\* login(): self.token = json_response.get("auth_token")
TLoginToken(t) ==
    /\ thr[t].pc = "login_token"
    /\ token' = thr[t].tok
    /\ thr' = [thr EXCEPT ![t].pc = "login_header"]
    /\ UNCHANGED <<headers, single>>

\* login(): self.session.headers.update({"Authorization": f"Bearer {self.token}"})
TLoginHeader(t) ==
    /\ thr[t].pc = "login_header"
    /\ headers' = HeadersUpdate(headers, Bearer(token))
    /\ thr' = [thr EXCEPT ![t] = IdleThread]
    /\ UNCHANGED <<token, single>>

\* logout(): self._make_request("POST", "logout") sends its request
TLogoutSend(t) ==
    /\ thr[t].pc = "idle"
    /\ thr' = [thr EXCEPT ![t] = [pc |-> "logout_recv", reqAuth |-> SessionAuth(headers),
                                  tokenAtSend |-> token, tok |-> JNull]]
    /\ UNCHANGED <<token, headers, single>>

\* logout(): the response is back; the test of status_code
TLogoutRecv(t) ==
    /\ thr[t].pc = "logout_recv"
    /\ \/ thr' = [thr EXCEPT ![t].pc = "logout_token"]
       \/ thr' = [thr EXCEPT ![t] = IdleThread]
    /\ UNCHANGED <<token, headers, single>>

\* logout(): self.token = None
TLogoutToken(t) ==
    /\ thr[t].pc = "logout_token"
    /\ token' = JNull
    /\ thr' = [thr EXCEPT ![t].pc = "logout_headers"]
    /\ UNCHANGED <<headers, single>>

\* logout(): self.session.headers.clear()
TLogoutHeaders(t) ==
    /\ thr[t].pc = "logout_headers"
    /\ headers' = HeadersClear
    /\ thr' = [thr EXCEPT ![t] = IdleThread]
    /\ UNCHANGED <<token, single>>

\* a catalog request: self.session.request(...) prepares and sends
TRequestSend(t) ==
    /\ thr[t].pc = "idle"
    /\ thr' = [thr EXCEPT ![t] = [pc |-> "request_recv", reqAuth |-> SessionAuth(headers),
                                  tokenAtSend |-> token, tok |-> JNull]]
    /\ UNCHANGED <<token, headers, single>>

\* a catalog request: the response is back
TRequestRecv(t) ==
    /\ thr[t].pc = "request_recv"
    /\ thr' = [thr EXCEPT ![t] = IdleThread]
    /\ UNCHANGED <<token, headers, single>>

NextThreads ==
    \E t \in Threads :
        \/ TLoginSend(t)
        \/ TLoginRecv(t)
        \/ TLoginToken(t)
        \/ TLoginHeader(t)
        \/ TLogoutSend(t)
        \/ TLogoutRecv(t)
        \/ TLogoutToken(t)
        \/ TLogoutHeaders(t)
        \/ TRequestSend(t)
        \/ TRequestRecv(t)

SpecThreads == InitThreads /\ [][NextThreads]_vars

\* ---- request URLs ---------------------------------------------------------
\* A URL or an endpoint is a sequence of tokens: a word, or one of the
\* characters that the URL functions treat specially.  Origin stands for
\* the scheme and host, "http://host".
Origin == "http://host"

\* Python's s.split(sep): the pieces of s between the separators.
RECURSIVE SplitOn(_, _)
SplitOn(s, sep) ==
    IF \E i \in 1..Len(s) : s[i] = sep
    THEN LET i == CHOOSE j \in 1..Len(s) :
                      /\ s[j] = sep
                      /\ \A k \in 1..(j - 1) : s[k] # sep
         IN  <<SubSeq(s, 1, i - 1)>> \o SplitOn(SubSeq(s, i + 1, Len(s)), sep)
    ELSE <<s>>

\* Python's sep.join(parts)
RECURSIVE JoinWith(_, _)
JoinWith(parts, sep) ==
    IF parts = <<>> THEN <<>>
    ELSE IF Len(parts) = 1 THEN parts[1]
    ELSE parts[1] \o <<sep>> \o JoinWith(Tail(parts), sep)

\* filter(None, parts): the non-empty pieces, in order
RECURSIVE NonEmpty(_)
NonEmpty(parts) ==
    IF parts = <<>> THEN <<>>
    ELSE IF Head(parts) = <<>> THEN NonEmpty(Tail(parts))
    ELSE <<Head(parts)>> \o NonEmpty(Tail(parts))

\* urlparse: network location, path, and the query after the first "?"
UrlParse(u) ==
    LET hasNet == u # <<>> /\ Head(u) = Origin
        rest   == IF hasNet THEN Tail(u) ELSE u
        parts  == SplitOn(rest, "?")
    IN  [netloc |-> IF hasNet THEN <<Origin>> ELSE <<>>,
         path   |-> parts[1],
         query  |-> IF Len(parts) = 1 THEN <<>> ELSE JoinWith(Tail(parts), "?")]

\* urlunparse: an empty query is written without its "?"
UrlUnparse(netloc, path, query) ==
    netloc \o path \o (IF query # <<>> THEN <<"?">> \o query ELSE <<>>)

\* urljoin(base, url) for a base with scheme and host and a url without
UrlJoin(base, url) ==
    LET b == UrlParse(base)
        e == UrlParse(url)
        split      == SplitOn(b.path, "/")
        base_parts == IF split[Len(split)] # <<>>
                      THEN SubSeq(split, 1, Len(split) - 1) ELSE split
        joined     == base_parts \o SplitOn(e.path, "/")
        segments   == IF e.path # <<>> /\ Head(e.path) = "/"
                      THEN SplitOn(e.path, "/")
                      ELSE <<joined[1]>>
                           \o NonEmpty(SubSeq(joined, 2, Len(joined) - 1))
                           \o <<joined[Len(joined)]>>
        resolved   == JoinWith(segments, "/")
    IN  IF url = <<>> THEN base
        ELSE IF e.path = <<>>
        THEN UrlUnparse(b.netloc, b.path, IF e.query # <<>> THEN e.query ELSE b.query)
        ELSE UrlUnparse(b.netloc, IF resolved = <<>> THEN <<"/">> ELSE resolved, e.query)

\* quote_plus, token by token: a space becomes "+", a reserved character
\* its percent escape, a word stays
QuotePlusRawAmpersand(str) ==
    [i \in 1..Len(str) |->
        IF str[i] = " " THEN "+"
        ELSE IF str[i] = "=" THEN "%3D"
        ELSE IF str[i] = "+" THEN "%2B"
        ELSE IF str[i] = "?" THEN "%3F"
        ELSE IF str[i] = "/" THEN "%2F"
        ELSE str[i]]

QuotePlus(str) ==
    [i \in 1..Len(str) |->
        IF str[i] = " " THEN "+"
        ELSE IF str[i] = "&" THEN "%26"
        ELSE IF str[i] = "=" THEN "%3D"
        ELSE IF str[i] = "+" THEN "%2B"
        ELSE IF str[i] = "?" THEN "%3F"
        ELSE IF str[i] = "/" THEN "%2F"
        ELSE str[i]]

\* urlencode(data): quote_plus(k) = quote_plus(v), joined by "&" in the
\* mapping's iteration order
UrlEncode(data) ==
    JoinWith([i \in 1..Len(data) |->
                 QuotePlus(data[i][1]) \o <<"=">> \o QuotePlus(data[i][2])], "&")

\* the base URLs a client is constructed with
BaseUrls ==
    { <<Origin>> \o path : path \in
        { <<>>, <<"/">>, <<"/", "api">>, <<"/", "api", "/">>,
          <<"/", "api", "/", "v3">>, <<"/", "api", "/", "v3", "/">> } }

\* endpoints handed to get/post/patch/delete
Endpoints ==
    { <<"hosts">>, <<"/", "hosts">>, <<"hosts", "/", "h1">>,
      <<"clouds", "/", "free", "/">>,
      <<"hosts", "?", "group_by", "=", "model">> }

FilterResources == {"hosts", "clouds", "assignments", "available"}
FilterKeys == { <<"model">>, <<"a", " ", "b">>, <<"k", "=">> }
FilterValues == { <<>>, <<"m1">>, <<"x", " ", "&", "y">>, <<"+", "=">> }

\* a mapping in iteration order: pairs with distinct keys
Mappings ==
    UNION { { m \in [1..n -> FilterKeys \X FilterValues] :
                \A i, j \in 1..n : i # j => m[i][1] # m[j][1] } : n \in 0..MaxPairs }

NoData == <<>>

\* a client with base URL b and no request in flight
NoUrl(b) ==
    [kind |-> "new", method |-> "none", base |-> b, resource |-> "none",
     data |-> NoData, endpoint |-> <<>>, url |-> <<>>]

InitUrl ==
    /\ scheme = "http"
    /\ token = JNull
    /\ headers = DefaultHeaders
    /\ poolOpen = FALSE
    /\ ctx = "out"
    /\ pc = "idle"
    /\ call = NoCall
    /\ result = NoResult
    /\ thr = NoThreads
    /\ \E b \in BaseUrls : fn = NoUrl(b)

\* the request _make_request hands to the session
SendTo(kind, method, resource, data, endpoint) ==
    /\ fn.kind = "new"
    /\ fn' = [kind |-> kind, method |-> method, base |-> fn.base, resource |-> resource,
              data |-> data, endpoint |-> endpoint, url |-> UrlJoin(fn.base, endpoint)]
    /\ UNCHANGED <<scheme, token, headers, poolOpen, ctx, pc, call, result, thr>>

\* get(endpoint), post(endpoint), patch(endpoint), delete(endpoint)
CatalogUrl ==
    \E method \in Verbs, endpoint \in Endpoints :
        SendTo("catalog", method, "none", NoData, endpoint)

\* login(): urljoin(self.base_url, "login")
LoginUrl == SendTo("login", "POST", "none", NoData, <<"login">>)

\* filter_hosts, filter_clouds, filter_assignments, filter_available
FilterUrl ==
    \E resource \in FilterResources, data \in Mappings :
        SendTo("filter", "GET", resource, data, <<resource, "?">> \o UrlEncode(data))

\* the response is back and the call returns
ReturnUrl ==
    /\ fn.kind # "new"
    /\ fn' = NoUrl(fn.base)
    /\ UNCHANGED <<scheme, token, headers, poolOpen, ctx, pc, call, result, thr>>

NextUrl ==
    \/ CatalogUrl
    \/ LoginUrl
    \/ FilterUrl
    \/ ReturnUrl

SpecUrl == InitUrl /\ [][NextUrl]_vars

\* ---- resource catalog -----------------------------------------------------
\* One entry per method of QuadsApi below the auth methods.  build: "str",
\* the endpoint is a string (literal or f-string) starting with items[1];
\* "path", it is str(Path(items[1]) / items[2] / ...).  An item is a string
\* literal or an argument: the name (hostname, cloud_name), the second name
\* (if_name), str(id), or the id itself.  query: what follows the path.
\* takes: the arguments the method reads.  body: data goes out as the JSON
\* body.
Route(op, method, build, items, query, takes, body) ==
    [op |-> op, method |-> method, build |-> build, items |-> items,
     query |-> query, takes |-> takes, body |-> body]

Routes ==
    {
      Route("get_hosts", "GET", "str", <<<<"lit", <<"hosts">>>>>>, "none", {}, FALSE),
      Route("get_host_models", "GET", "str", <<<<"lit", <<"hosts", "?", "group_by", "=", "model">>>>>>, "none", {}, FALSE),
      Route("filter_hosts", "GET", "str", <<<<"lit", <<"hosts">>>>>>, "always", {"data"}, FALSE),
      Route("filter_clouds", "GET", "str", <<<<"lit", <<"clouds">>>>>>, "always", {"data"}, FALSE),
      Route("filter_assignments", "GET", "str", <<<<"lit", <<"assignments">>>>>>, "always", {"data"}, FALSE),
      Route("get_host", "GET", "path", <<<<"lit", <<"hosts">>>>, <<"arg", <<"name">>>>>>, "none", {"name"}, FALSE),
      Route("create_host", "POST", "str", <<<<"lit", <<"hosts">>>>>>, "none", {}, TRUE),
      Route("update_host", "PATCH", "path", <<<<"lit", <<"hosts">>>>, <<"arg", <<"name">>>>>>, "none", {"name"}, TRUE),
      Route("remove_host", "DELETE", "path", <<<<"lit", <<"hosts">>>>, <<"arg", <<"name">>>>>>, "none", {"name"}, FALSE),
      Route("is_available", "GET", "path", <<<<"lit", <<"available">>>>, <<"arg", <<"name">>>>>>, "always", {"name", "data"}, FALSE),
      Route("get_clouds", "GET", "str", <<<<"lit", <<"clouds">>>>>>, "none", {}, FALSE),
      Route("get_free_clouds", "GET", "str", <<<<"lit", <<"clouds", "/", "free", "/">>>>>>, "none", {}, FALSE),
      Route("get_cloud", "GET", "str", <<<<"lit", <<"clouds">>>>>>, "name", {"name"}, FALSE),
      Route("get_summary", "GET", "path", <<<<"lit", <<"clouds">>>>, <<"lit", <<"summary">>>>>>, "if_data", {"data"}, FALSE),
      Route("create_cloud", "POST", "str", <<<<"lit", <<"clouds">>>>>>, "none", {}, TRUE),
      Route("update_cloud", "PATCH", "path", <<<<"lit", <<"clouds">>>>, <<"arg", <<"name">>>>>>, "none", {"name"}, TRUE),
      Route("remove_cloud", "DELETE", "path", <<<<"lit", <<"clouds">>>>, <<"arg", <<"name">>>>>>, "none", {"name"}, FALSE),
      Route("get_schedules", "GET", "str", <<<<"lit", <<"schedules">>>>>>, "if_params", {"optdata"}, FALSE),
      Route("get_current_schedules", "GET", "path", <<<<"lit", <<"schedules">>>>, <<"lit", <<"current">>>>>>, "if_data", {"optdata"}, FALSE),
      Route("get_schedule", "GET", "path", <<<<"lit", <<"schedules">>>>, <<"arg", <<"str_id">>>>>>, "none", {"id"}, FALSE),
      Route("get_future_schedules", "GET", "path", <<<<"lit", <<"schedules">>>>, <<"lit", <<"future">>>>>>, "if_data", {"optdata"}, FALSE),
      Route("update_schedule", "PATCH", "path", <<<<"lit", <<"schedules">>>>, <<"arg", <<"str_id">>>>>>, "none", {"id"}, TRUE),
      Route("remove_schedule", "DELETE", "path", <<<<"lit", <<"schedules">>>>, <<"arg", <<"str_id">>>>>>, "none", {"id"}, FALSE),
      Route("create_schedule", "POST", "str", <<<<"lit", <<"schedules">>>>>>, "none", {}, TRUE),
      Route("get_available", "GET", "str", <<<<"lit", <<"available">>>>>>, "none", {}, FALSE),
      Route("filter_available", "GET", "str", <<<<"lit", <<"available">>>>>>, "always", {"data"}, FALSE),
      Route("create_assignment", "POST", "str", <<<<"lit", <<"assignments">>>>>>, "none", {}, TRUE),
      Route("create_self_assignment", "POST", "path", <<<<"lit", <<"assignments">>>>, <<"lit", <<"self">>>>>>, "none", {}, TRUE),
      Route("update_assignment", "PATCH", "path", <<<<"lit", <<"assignments">>>>, <<"arg", <<"str_id">>>>>>, "none", {"id"}, TRUE),
      Route("update_notification", "PATCH", "path", <<<<"lit", <<"notifications">>>>, <<"arg", <<"str_id">>>>>>, "none", {"id"}, TRUE),
      Route("get_active_cloud_assignment", "GET", "path", <<<<"lit", <<"assignments">>>>, <<"lit", <<"active">>>>, <<"arg", <<"name">>>>>>, "none", {"name"}, FALSE),
      Route("get_active_assignments", "GET", "str", <<<<"lit", <<"assignments", "/", "active">>>>>>, "none", {}, FALSE),
      Route("terminate_assignment", "POST", "path", <<<<"lit", <<"assignments">>>>, <<"lit", <<"terminate">>>>, <<"arg", <<"str_id">>>>>>, "none", {"id"}, FALSE),
      Route("get_host_interface", "GET", "path", <<<<"lit", <<"hosts">>>>, <<"arg", <<"name">>>>, <<"lit", <<"interfaces">>>>>>, "none", {"name"}, FALSE),
      Route("get_interfaces", "GET", "str", <<<<"lit", <<"interfaces">>>>>>, "none", {}, FALSE),
      Route("update_interface", "PATCH", "path", <<<<"lit", <<"interfaces">>>>, <<"arg", <<"name">>>>>>, "none", {"name"}, TRUE),
      Route("remove_interface", "DELETE", "path", <<<<"lit", <<"interfaces">>>>, <<"arg", <<"name">>>>, <<"arg", <<"name2">>>>>>, "none", {"name", "name2"}, FALSE),
      Route("create_interface", "POST", "path", <<<<"lit", <<"interfaces">>>>, <<"arg", <<"name">>>>>>, "none", {"name"}, TRUE),
      Route("create_memory", "POST", "path", <<<<"lit", <<"memory">>>>, <<"arg", <<"name">>>>>>, "none", {"name"}, TRUE),
      Route("remove_memory", "DELETE", "path", <<<<"lit", <<"memory">>>>, <<"arg", <<"raw_id">>>>>>, "none", {"id"}, FALSE),
      Route("create_disk", "POST", "path", <<<<"lit", <<"disks">>>>, <<"arg", <<"name">>>>>>, "none", {"name"}, TRUE),
      Route("update_disk", "PATCH", "path", <<<<"lit", <<"disks">>>>, <<"arg", <<"name">>>>>>, "none", {"name"}, TRUE),
      Route("remove_disk", "DELETE", "path", <<<<"lit", <<"disks">>>>, <<"arg", <<"name">>>>, <<"arg", <<"raw_id">>>>>>, "none", {"name", "id"}, FALSE),
      Route("create_processor", "POST", "path", <<<<"lit", <<"processors">>>>, <<"arg", <<"name">>>>>>, "none", {"name"}, TRUE),
      Route("remove_processor", "DELETE", "path", <<<<"lit", <<"processors">>>>, <<"arg", <<"raw_id">>>>>>, "none", {"id"}, FALSE),
      Route("get_vlans", "GET", "str", <<<<"lit", <<"vlans">>>>>>, "none", {}, FALSE),
      Route("get_vlan", "GET", "path", <<<<"lit", <<"vlans">>>>, <<"arg", <<"str_id">>>>>>, "none", {"id"}, FALSE),
      Route("get_free_vlans", "GET", "path", <<<<"lit", <<"vlans">>>>, <<"lit", <<"free">>>>>>, "none", {}, FALSE),
      Route("update_vlan", "PATCH", "path", <<<<"lit", <<"vlans">>>>, <<"arg", <<"str_id">>>>>>, "none", {"id"}, TRUE),
      Route("create_vlan", "POST", "str", <<<<"lit", <<"vlans">>>>>>, "none", {}, TRUE),
      Route("get_moves", "GET", "str", <<<<"lit", <<"moves">>>>>>, "if_date", {"date"}, FALSE),
      Route("get_version", "GET", "str", <<<<"lit", <<"version">>>>>>, "none", {}, FALSE)
    }

Names == { <<"host1">>, <<"cloud1">> }
SecondNames == { <<"eth0">> }
Ids == {0, 7, 12, -3}
Dates == { <<>>, <<"2024-03-20">>, <<"2024-03-20", " ", "22h">> }

\* str(n) for an int: the decimal digits, "-" first for a negative number
Digit(d) == <<"0", "1", "2", "3", "4", "5", "6", "7", "8", "9">>[d + 1]

RECURSIVE Decimal(_)
Decimal(n) ==
    IF n < 0 THEN <<"-">> \o Decimal(0 - n)
    ELSE IF n < 10 THEN <<Digit(n)>>
    ELSE Decimal(n \div 10) \o <<Digit(n % 10)>>

\* The arguments of one invocation; given: the optional mapping was passed
\* (None otherwise).  An argument the method does not take has its default.
NoArgs == [name |-> <<>>, name2 |-> <<>>, id |-> 0, given |-> FALSE,
           data |-> NoData, date |-> <<>>]

ArgsOf(route) ==
    { [name |-> n, name2 |-> n2, id |-> i, given |-> g, data |-> d, date |-> dt] :
        n \in (IF "name" \in route.takes THEN Names ELSE {NoArgs.name}),
        n2 \in (IF "name2" \in route.takes THEN SecondNames ELSE {NoArgs.name2}),
        i \in (IF "id" \in route.takes THEN Ids ELSE {NoArgs.id}),
        g \in (IF "optdata" \in route.takes THEN BOOLEAN
               ELSE IF "data" \in route.takes THEN {TRUE} ELSE {FALSE}),
        d \in (IF route.takes \cap {"data", "optdata"} # {} THEN Mappings ELSE {NoData}),
        dt \in (IF "date" \in route.takes THEN Dates ELSE {NoArgs.date}) }

\* the Python value of an item: a str or an int
Operand(item, args) ==
    IF item[1] = "lit" THEN <<"str", item[2]>>
    ELSE IF item[2] = <<"name">> THEN <<"str", args.name>>
    ELSE IF item[2] = <<"name2">> THEN <<"str", args.name2>>
    ELSE IF item[2] = <<"str_id">> THEN <<"str", Decimal(args.id)>>
    ELSE <<"int", args.id>>

\* PurePath.__truediv__: TypeError for an operand that is no str or path;
\* an empty str adds nothing, an absolute one replaces the path
PathDiv(p, v) ==
    IF ~p.ok THEN p
    ELSE IF v[1] = "int" THEN [ok |-> FALSE, parts |-> <<>>]
    ELSE IF v[2] = <<>> THEN p
    ELSE IF Head(v[2]) = "/" THEN [ok |-> TRUE, parts |-> <<v[2]>>]
    ELSE [ok |-> TRUE, parts |-> Append(p.parts, v[2])]

\* Path(items[1]) / items[2] / ... / items[n]
RECURSIVE PathOf(_, _, _)
PathOf(items, args, n) ==
    IF n = 1 THEN [ok |-> TRUE, parts |-> <<Operand(items[1], args)[2]>>]
    ELSE PathDiv(PathOf(items, args, n - 1), Operand(items[n], args))

\* the mapping a method encodes: `if data is None: data = {}`
DataOf(args) == IF args.given THEN args.data ELSE NoData

\* (variant: the "?" is written whatever the mapping)
QueryOfAlways(route, args) ==
    IF route.query = "none" THEN <<>>
    ELSE IF route.query = "name" THEN <<"?", "name", "=">> \o args.name
    ELSE IF route.query = "if_date"
         THEN <<"?">> \o UrlEncode(<< <<<<"date">>, args.date>> >>)
    ELSE <<"?">> \o UrlEncode(DataOf(args))

\* what the method writes after the path
QueryOf(route, args) ==
    IF route.query = "always" THEN <<"?">> \o UrlEncode(DataOf(args))
    ELSE IF route.query = "if_data"
         THEN IF DataOf(args) # NoData THEN <<"?">> \o UrlEncode(DataOf(args)) ELSE <<>>
    ELSE IF route.query = "if_params"
         THEN IF UrlEncode(DataOf(args)) # <<>> THEN <<"?">> \o UrlEncode(DataOf(args)) ELSE <<>>
    ELSE IF route.query = "if_date"
         THEN IF args.date # <<>>
              THEN <<"?">> \o UrlEncode(<< <<<<"date">>, args.date>> >>) ELSE <<>>
    ELSE IF route.query = "name" THEN <<"?", "name", "=">> \o args.name
    ELSE <<>>

\* the endpoint the method hands to get/post/patch/delete, or the
\* TypeError of its path expression
EndpointOf(route, args) ==
    LET p == IF route.build = "path" THEN PathOf(route.items, args, Len(route.items))
             ELSE [ok |-> TRUE, parts |-> <<route.items[1][2]>>]
    IN  IF p.ok THEN [ok |-> TRUE, val |-> JoinWith(p.parts, "/") \o QueryOf(route, args)]
        ELSE [ok |-> FALSE, val |-> <<>>]

\* how a call that was sent can end
Outcomes == {"ok", "APIServerException", "APIBadRequest", "JSONDecodeError",
             "RetryError", "ConnectionError"}

CatalogBases == { <<Origin, "/">>, <<Origin, "/", "api", "/", "v3", "/">> }

\* fn.calls: the calls of the transport primitive the invocation has made
NoCatalog(b) ==
    [kind |-> "idle", base |-> b, op |-> "none", args |-> NoArgs,
     calls |-> <<>>, out |-> "none"]

InitCatalog ==
    /\ scheme = "http"
    /\ token = JNull
    /\ headers = DefaultHeaders
    /\ poolOpen = FALSE
    /\ ctx = "out"
    /\ pc = "idle"
    /\ call = NoCall
    /\ result = NoResult
    /\ thr = NoThreads
    /\ \E b \in CatalogBases : fn = NoCatalog(b)

\* A catalog method is invoked: it builds its endpoint and makes its one
\* call of get/post/patch/delete, or fails while building the endpoint.
Invoke(route, args) ==
    LET e == EndpointOf(route, args) IN
    /\ fn.kind = "idle"
    /\ fn' = IF e.ok
             THEN [kind |-> "sent", base |-> fn.base, op |-> route.op, args |-> args,
                   calls |-> << [method |-> route.method, endpoint |-> e.val,
                                 url |-> UrlJoin(fn.base, e.val),
                                 body |-> route.body] >>,
                   out |-> "none"]
             ELSE [kind |-> "done", base |-> fn.base, op |-> route.op, args |-> args,
                   calls |-> <<>>, out |-> "TypeError"]
    /\ UNCHANGED <<scheme, token, headers, poolOpen, ctx, pc, call, result, thr>>

CatalogCall == \E route \in Routes : \E args \in ArgsOf(route) : Invoke(route, args)

\* the call of the transport primitive ends, and with it the method
CatalogReturn ==
    /\ fn.kind = "sent"
    /\ \E o \in Outcomes : fn' = [fn EXCEPT !.kind = "done", !.out = o]
    /\ UNCHANGED <<scheme, token, headers, poolOpen, ctx, pc, call, result, thr>>

\* the client is ready for the next invocation
CatalogIdle ==
    /\ fn.kind = "done"
    /\ fn' = NoCatalog(fn.base)
    /\ UNCHANGED <<scheme, token, headers, poolOpen, ctx, pc, call, result, thr>>

NextCatalog ==
    \/ CatalogCall
    \/ CatalogReturn
    \/ CatalogIdle

SpecCatalog == InitCatalog /\ [][NextCatalog]_vars

\* ---- properties ----------------------------------------------------------

\* C1: for every verb, a call through _make_request (get/post/patch/delete,
\* register, logout) that ends on a status-500 response fails with
\* APIServerException "Check the flask server logs", whatever the body is,
\* and the body has not been decoded.
C1_ServerErrorOn500 ==
    (pc = "idle" /\ result.op \in {"request", "register", "logout"} /\ result.status = 500)
        => /\ result.out.kind = "APIServerException"
           /\ result.out.msg = ServerErrorMessage
           /\ ~result.out.decoded

C1_Witness ==
    /\ pc = "idle" /\ result.op = "request" /\ result.method = "PATCH"
    /\ result.status = 500 /\ result.body = RawText
    /\ result.out.kind = "APIServerException"

\* C2: for every verb, a call through _make_request that ends on a
\* status-400 response fails with APIBadRequest: with message X when the
\* body is the JSON object {"message": X}, with "Failed to parse response"
\* when the body is not JSON.
C2_BadRequestOn400 ==
    (pc = "idle" /\ result.op \in {"request", "register", "logout"} /\ result.status = 400)
        => /\ \A i \in 1..NumMessages :
                result.body = Ser(JObj([message |-> Msg(i)]))
                    => result.out.kind = "APIBadRequest" /\ result.out.msg = Msg(i)
           /\ result.body = RawText
                => result.out.kind = "APIBadRequest" /\ result.out.msg = ParseErrorMessage

C2_Witness ==
    /\ pc = "idle" /\ result.op = "request" /\ result.method = "DELETE"
    /\ result.status = 400 /\ result.body = RawText
    /\ result.out.msg = ParseErrorMessage

\* C3 as claimed: every call of the request primitive that ends on a
\* response whose status is neither 400 nor 500 raises no error and returns
\* the decoded body.
C3_Original ==
    (pc = "idle" /\ result.op \in {"request", "register"} /\ result.status \notin {0, 400, 500})
        => /\ result.out.kind = "ok"
           /\ result.body # NoBody
           /\ result.out.value = result.body[2]

\* C3 as amended: a response whose status is neither 400 nor 500 and that
\* the session hands to _make_request (it is not the answer on which the
\* retries ran out) is never classified as an API error: when its body is
\* valid JSON the decoded body is returned unchanged, otherwise the call
\* fails with JSONDecodeError.
C3_OtherStatusPassThrough ==
    (/\ pc = "idle" /\ result.op \in {"request", "register"}
     /\ result.status \notin {0, 400, 500} /\ result.out.kind # "RetryError")
        => IF result.body[1] = "json"
           THEN result.out.kind = "ok" /\ result.out.value = result.body[2]
           ELSE result.out.kind = "JSONDecodeError"

C3_Witness ==
    /\ pc = "idle" /\ result.op = "request" /\ result.method = "POST"
    /\ result.status = 404 /\ result.body = Ser(JObj([message |-> Msg(1)]))
    /\ result.out.kind = "ok" /\ result.out.value = JObj([message |-> Msg(1)])

\* C4 as claimed: once a login has stored a token T, every request sent
\* through the client carries Authorization: Bearer T until a logout.
C4_Original ==
    (pc = "wait" /\ token # JNull) => call.reqAuth = Bearer(token)

\* C4 as amended: a login that gets a body with status_code 201 and
\* auth_token T stores T and sets the session header Bearer T; from then on
\* every request other than the request of a further login (which carries
\* the Basic credentials) carries the session's Authorization header, which
\* stays Bearer T until a login or logout changes it; a logout that gets a
\* body with status_code 200 leaves the token None and the headers cleared,
\* and the requests sent after it carry no Authorization header until a
\* login sets one.
C4_BearerFromLoginToLogout ==
    /\ [](/\ (pc = "idle" /\ result.op = "login" /\ result.out.kind = "ok"
               /\ Get(result.out.value[2], "status_code") = JInt(201))
                => /\ token = Get(result.out.value[2], "auth_token")
                   /\ SessionAuth(headers) = Bearer(token)
          /\ (pc = "idle" /\ result.op = "logout" /\ result.out.kind = "ok"
               /\ Get(result.out.value[2], "status_code") = JInt(200))
                => /\ token = JNull
                   /\ DOMAIN headers = {}
          /\ (pc = "wait" /\ call.op # "login")
                => call.reqAuth = SessionAuth(headers)
          /\ (pc = "wait" /\ call.op = "login") => call.reqAuth = Basic
          /\ token # JNull => SessionAuth(headers) = Bearer(token))
    /\ [][(token' # token \/ SessionAuth(headers') # SessionAuth(headers))
            => /\ pc' = "idle"
               /\ \/ /\ result'.op = "login" /\ result'.out.kind = "ok"
                     /\ Get(result'.out.value[2], "status_code") = JInt(201)
                  \/ /\ result'.op = "logout" /\ result'.out.kind = "ok"
                     /\ Get(result'.out.value[2], "status_code") = JInt(200)]_vars

C4_Witness ==
    /\ pc = "wait" /\ call.op = "request" /\ call.method = "GET"
    /\ token = Tok(1) /\ call.reqAuth = Bearer(Tok(1))
    /\ ctx = "body"

\* C5 as claimed: whatever the request, when the server answers 503, 503,
\* 503 and then 200 the call makes four attempts and returns the decoded
\* 200 body: no call ends on one of the first three 503 answers.
C5_Original ==
    (pc = "idle" /\ result.op \in {"request", "register"} /\ result.all503)
        => /\ result.status = 503 => result.attempts > 3
           /\ (result.attempts = 4 /\ result.status = 200 /\ result.body[1] = "json")
                => result.out.kind = "ok" /\ result.out.value = result.body[2]

\* C5 as amended: a GET or DELETE request to an http:// base URL whose
\* first three attempts are answered 503 goes on to a fourth attempt, and
\* when that is answered 200 with a JSON body the call has made exactly
\* four attempts and returns that decoded body, with no error.
C5_RetryThenSuccess ==
    (/\ pc = "idle" /\ result.op = "request" /\ result.all503
     /\ scheme = "http" /\ result.method \in {"GET", "DELETE"})
        => /\ result.status = 503 => result.attempts > 3
           /\ (result.attempts = 4 /\ result.status = 200 /\ result.body[1] = "json")
                => result.out.kind = "ok" /\ result.out.value = result.body[2]

C5_Witness ==
    /\ pc = "idle" /\ result.op = "request" /\ result.method = "GET"
    /\ scheme = "http" /\ result.all503 /\ result.attempts = 4
    /\ result.status = 200 /\ result.out.kind = "ok"
    /\ result.out.value = JObj(EmptyObj)

\* C6 as claimed: no request makes more than 5 network attempts.
C6_Original ==
    call.attempts <= 5 /\ result.attempts <= 5

\* C6 as amended: no request makes more than 6 network attempts (the first
\* attempt and at most 5 retries); a call that has made 6 attempts has
\* ended.
C6_AtMostSixAttempts ==
    /\ result.attempts <= RetryTotal + 1
    /\ pc = "wait" => call.attempts < RetryTotal + 1
    /\ pc = "wait" => call.attempts + call.total = AdapterTotal(scheme)

C6_Witness ==
    /\ pc = "idle" /\ result.attempts = RetryTotal + 1
    /\ result.status = 504 /\ result.out.kind = "RetryError"

\* C7 as claimed: a response whose status is outside {502, 503, 504} is
\* never answered by a retry.
C7_Original ==
    pc = "wait" => call.retried.status \in {0} \cup StatusForcelist

\* C7 as amended: a response is answered by a retry only when its status is
\* 502, 503 or 504, or when it is a 413 or 429 response that carries a
\* Retry-After header (to a GET or DELETE on the http:// adapter, while
\* retries are left); a 400, 404 or 500 response is never retried.
C7_OnlyTransientRetried ==
    (pc = "wait" /\ call.retried.status # 0)
        => /\ \/ call.retried.status \in StatusForcelist
              \/ /\ call.retried.retryAfter
                 /\ call.retried.status \in {413, 429}
           /\ call.retried.status \notin {400, 404, 500}
           /\ call.method \in {"GET", "DELETE"}
           /\ scheme = "http"

C7_Witness ==
    /\ pc = "idle" /\ scheme = "http" /\ result.op = "request"
    /\ result.method = "GET" /\ result.status = 500 /\ result.attempts = 1
    /\ result.out.kind = "APIServerException"

\* C8 as claimed: on the retrying adapter a call of any verb that ends on
\* a 502, 503 or 504 response has used up its retries.
C8_Original ==
    (pc = "idle" /\ scheme = "http" /\ result.status \in StatusForcelist)
        => result.out.kind = "RetryError" /\ result.attempts = RetryTotal + 1

\* C8 as amended: retry on 502/503/504 is applied to GET and DELETE
\* requests only; no response to a POST or PATCH request is retried: the
\* attempt that receives the 503 is the last one of the call and the
\* response goes to the caller's handling.
C8_RetryOnlyForGetAndDelete ==
    /\ (pc = "wait" /\ call.method \in {"POST", "PATCH"})
            => call.retried = NoneRetried
    /\ (pc = "idle" /\ result.method \in {"POST", "PATCH"}
         /\ result.status \in StatusForcelist)
            => result.out.kind # "RetryError" /\ result.body # NoBody
    /\ (pc = "idle" /\ scheme = "http" /\ result.method \in {"GET", "DELETE"}
         /\ result.status \in StatusForcelist)
            => result.out.kind = "RetryError" /\ result.attempts = RetryTotal + 1

C8_Witness ==
    /\ pc = "idle" /\ scheme = "http" /\ result.op = "request"
    /\ result.method = "POST" /\ result.status = 503 /\ result.attempts = 1
    /\ result.out.kind = "ok"

\* C9: whenever a with-block has been left (__exit__ has run), the
\* connection pool has been released by session.close().
C9_PoolReleasedOnExit ==
    (pc = "idle" /\ result.via = "exit") => ~poolOpen

\* C10: logout() called while Unauthenticated (token None, no Authorization
\* header) sends no request.
C10_LogoutUnauthenticatedNoRequest ==
    ~(/\ pc = "wait" /\ call.op = "logout"
      /\ token = JNull /\ "Authorization" \notin DOMAIN headers)

\* C11: a login that finds a token stored and gets a body with status_code
\* 201 and auth_token T2 leaves the client Authenticated with token T2 and
\* the one Authorization header Bearer T2; the earlier token is gone.
C11_ReloginReplacesToken ==
    (/\ pc = "idle" /\ result.op = "login" /\ result.tokenBefore # JNull
     /\ result.out.kind = "ok"
     /\ Get(result.out.value[2], "status_code") = JInt(201)
     /\ "auth_token" \in DOMAIN result.out.value[2])
        => /\ token = result.out.value[2]["auth_token"]
           /\ token # JNull
           /\ SessionAuth(headers) = Bearer(token)
           /\ result.tokenBefore # token
                => SessionAuth(headers) # Bearer(result.tokenBefore)

C11_Witness ==
    /\ pc = "idle" /\ result.op = "login" /\ result.out.kind = "ok"
    /\ result.tokenBefore = Tok(1) /\ token = Tok(2)
    /\ SessionAuth(headers) = Bearer(Tok(2))

\* C12 as claimed: every request that is sent carries an Authorization
\* header, Basic or Bearer.
C12_Original ==
    pc = "wait" => call.reqAuth # NoHeader

\* C12 as amended: the request of login() carries the Basic credentials;
\* every other request carries the session's Authorization header when one
\* is set, and no Authorization header at all when none is set (before the
\* first successful login and after a successful logout).
C12_CredentialsOnlyWhenLoggedIn ==
    pc = "wait"
        => /\ call.op = "login" => call.reqAuth = Basic
           /\ call.op # "login" => call.reqAuth = SessionAuth(headers)
           /\ call.reqAuth = NoHeader
                <=> (call.op # "login" /\ "Authorization" \notin DOMAIN headers)

C12_Witness ==
    /\ pc = "wait" /\ call.op = "register" /\ call.reqAuth = NoHeader
    /\ token = JNull

\* C14: a step that ends login() stores the body's auth_token and sets the
\* Bearer header exactly when the decoded body is an object with
\* status_code 201, whatever the HTTP status; a step that ends logout()
\* clears token and headers exactly when _make_request returned an object
\* with status_code 200; every other end of login or logout leaves token and
\* headers as they were.
C14_GatedByBodyStatusCode ==
    [][/\ (pc = "wait" /\ call.op = "login" /\ pc' = "idle")
            => IF /\ result'.body[1] = "json"
                  /\ result'.body[2][1] = "obj"
                  /\ Get(result'.body[2][2], "status_code") = JInt(201)
               THEN /\ token' = Get(result'.body[2][2], "auth_token")
                    /\ headers' = HeadersUpdate(headers, Bearer(token'))
               ELSE token' = token /\ headers' = headers
       /\ (pc = "wait" /\ call.op = "logout" /\ pc' = "idle")
            => IF /\ result'.out.kind = "ok"
                  /\ Get(result'.out.value[2], "status_code") = JInt(200)
               THEN token' = JNull /\ DOMAIN headers' = {}
               ELSE token' = token /\ headers' = headers]_vars

C14_Witness ==
    /\ pc = "idle" /\ result.op = "login" /\ result.status = 500
    /\ result.tokenBefore = JNull /\ token = Tok(1)
    /\ SessionAuth(headers) = Bearer(Tok(1))

\* C15 as claimed: a call that ends because no connection could be made
\* has made exactly one network attempt.
C15_Original ==
    (pc = "idle" /\ result.out.kind = "ConnectionError") => result.attempts = 1

\* C15 as amended: failed connections are retried under the adapter's
\* total, for every verb: a call ends with ConnectionError (neither
\* APIServerException nor APIBadRequest) only after 6 attempts on an
\* http:// base URL, and after its one attempt on an https:// base URL.
C15_ConnectFailureRetried ==
    (pc = "idle" /\ result.out.kind = "ConnectionError")
        => /\ result.attempts = (IF scheme = "http" THEN RetryTotal + 1 ELSE 1)
           /\ result.status = 0
           /\ result.out.kind \notin {"APIServerException", "APIBadRequest"}

C15_Witness ==
    /\ pc = "idle" /\ scheme = "http" /\ result.op = "request"
    /\ result.method = "POST" /\ result.out.kind = "ConnectionError"
    /\ result.attempts = RetryTotal + 1 /\ ~result.all503

\* C19: whatever JSON value a successful response carries, is_available
\* returns a boolean: True for the string "true" and for the JSON boolean
\* true, False for the string "false".
C19_IsAvailableReturnsBoolean ==
    (/\ pc = "idle" /\ result.op = "is_available"
     /\ result.status = 200 /\ result.body[1] = "json")
        => /\ result.out.kind = "ok"
           /\ result.out.value \in {JBool(TRUE), JBool(FALSE)}
           /\ result.body[2] \in {JStr(TrueStr), JBool(TRUE)}
                => result.out.value = JBool(TRUE)
           /\ result.body[2] = JStr(FalseStr) => result.out.value = JBool(FALSE)

\* C20: a POST, PATCH or DELETE call that ends on a 200 response returns
\* to the caller the response object it received, not a value decoded from
\* its body.
C20_MutatingCallReturnsResponse ==
    (/\ pc = "idle" /\ result.op = "request"
     /\ result.method \in {"POST", "PATCH", "DELETE"}
     /\ result.status = 200 /\ result.body[1] = "json")
        => /\ result.out.kind = "ok"
           /\ result.out.value = <<"response", result.status, result.body>>

\* C13: with two threads on one client, login and logout exclude each
\* other, no request is sent with an Authorization header that disagrees
\* with the stored token, and when every thread is idle the stored token
\* and the Authorization header agree.
C13_LoginLogoutSerialized ==
    /\ \A t, u \in Threads :
        (/\ t # u
         /\ thr[t].pc \in {"login_recv", "login_token", "login_header",
                           "logout_recv", "logout_token", "logout_headers"})
            => thr[u].pc \in {"idle", "request_recv"}
    /\ \A t \in Threads :
        thr[t].pc = "request_recv"
            => thr[t].reqAuth = (IF thr[t].tokenAtSend = JNull THEN NoHeader
                                 ELSE Bearer(thr[t].tokenAtSend))
    /\ (\A t \in Threads : thr[t].pc = "idle")
            => SessionAuth(headers) = (IF token = JNull THEN NoHeader ELSE Bearer(token))

\* C16: the request URL built for the endpoint "hosts" from a base URL
\* equals the one built from the base URL followed by "/".
C16_TrailingSlashIrrelevant ==
    (fn.kind = "catalog" /\ fn.endpoint = <<"hosts">>)
        => fn.url = UrlJoin(fn.base \o <<"/">>, fn.endpoint)

\* C17: for a base URL with a path segment and an endpoint that starts
\* with "/", the request URL is the base, without its trailing slash,
\* followed by the endpoint.
C17_LeadingSlashKeepsBasePath ==
    (/\ fn.kind = "catalog"
     /\ Head(fn.endpoint) = "/"
     /\ \E i \in 1..Len(fn.base) : fn.base[i] \notin {Origin, "/"})
        => fn.url = (IF fn.base[Len(fn.base)] = "/"
                     THEN SubSeq(fn.base, 1, Len(fn.base) - 1) ELSE fn.base)
                    \o fn.endpoint

C22_Every400IsBadRequest ==
    (pc = "idle" /\ result.op \in {"request", "register", "logout", "is_available"}
     /\ result.status = 400)
        => /\ result.out.kind = "APIBadRequest"
           /\ result.body = Ser(JObj(EmptyObj)) => result.out.msg = JNull

\* C23 as claimed: whatever the scheme of base_url, a GET or DELETE call
\* that ends on a 502, 503 or 504 response has used up its retries.
C23_Original ==
    (pc = "idle" /\ result.method \in {"GET", "DELETE"}
     /\ result.status \in StatusForcelist)
        => result.out.kind = "RetryError" /\ result.attempts = RetryTotal + 1

\* C23 as amended: the retry policy is in force for http:// base URLs
\* only.  On an https:// base URL no response is answered by a retry and
\* every call ends after its first attempt, a 502, 503 or 504 response
\* going to the classification like any other; on an http:// base URL a GET
\* or DELETE call that ends on such a response has made 6 attempts and
\* fails with RetryError.
C23_RetryOnlyOnHttp ==
    /\ scheme = "https"
            => /\ pc = "wait" => call.attempts = 0 /\ call.retried = NoneRetried
               /\ (pc = "idle" /\ result.op # "none")
                    => /\ result.attempts = 1
                       /\ result.out.kind # "RetryError"
                       /\ (result.status \in StatusForcelist /\ result.op = "request"
                            /\ result.body[1] = "json")
                                => result.out.kind = "ok"
    /\ (scheme = "http" /\ pc = "idle" /\ result.method \in {"GET", "DELETE"}
         /\ result.status \in StatusForcelist)
            => result.out.kind = "RetryError" /\ result.attempts = RetryTotal + 1

C23_Witness ==
    /\ pc = "idle" /\ scheme = "https" /\ result.op = "request"
    /\ result.method = "GET" /\ result.status = 503 /\ result.attempts = 1
    /\ result.body = Ser(JObj(EmptyObj)) /\ result.out.kind = "ok"

\* C25: between calls the stored token is None exactly when the session
\* has no Authorization header, and a stored token T goes with the header
\* Bearer T.
C25_TokenMatchesHeader ==
    pc = "idle"
        => /\ token = JNull <=> "Authorization" \notin DOMAIN headers
           /\ token # JNull => SessionAuth(headers) = Bearer(token)

\* C26: no step of a call other than login and logout changes the stored
\* token or the session headers, however the call ends.
C26_OnlyLoginLogoutChangeAuth ==
    [][(token' # token \/ headers' # headers) => call.op \in {"login", "logout"}]_vars

C26_Witness ==
    /\ pc = "idle" /\ result.op = "register" /\ result.status = 400
    /\ result.out.kind = "APIBadRequest"
    /\ token = Tok(2) /\ SessionAuth(headers) = Bearer(Tok(2))

\* C27: when __enter__ has returned, the token is set and the session
\* carries its Bearer header.
C27_EnterReturnsAuthenticated ==
    (pc = "idle" /\ result.via = "enter" /\ ctx = "body")
        => token # JNull /\ SessionAuth(headers) = Bearer(token)

\* C28 as claimed: no call that ends on a 502, 503 or 504 response returns
\* a result.
C28_Original ==
    (pc = "idle" /\ result.status \in StatusForcelist) => result.out.kind # "ok"

\* C28 as amended: a GET or DELETE call to an http:// base URL never
\* returns a body taken from a 502, 503 or 504 response: it ends on such a
\* response only when the retries are used up, with RetryError and no body
\* read.  A POST or PATCH call, and every call to an https:// base URL,
\* that receives such a response ends on it without RetryError, and
\* get/post/patch/delete and register return its decoded body when that is
\* JSON.
C28_GatewayBodyOnlyWhenNotRetried ==
    (pc = "idle" /\ result.status \in StatusForcelist)
        => IF scheme = "http" /\ result.method \in {"GET", "DELETE"}
           THEN /\ result.out.kind = "RetryError"
                /\ result.body = NoBody
                /\ result.attempts = RetryTotal + 1
           ELSE /\ result.out.kind # "RetryError"
                /\ result.body # NoBody
                /\ (result.op \in {"request", "register"} /\ result.body[1] = "json")
                        => result.out.kind = "ok" /\ result.out.value = result.body[2]

C28_Witness ==
    /\ pc = "idle" /\ scheme = "http" /\ result.op = "request"
    /\ result.method = "PATCH" /\ result.status = 502
    /\ result.body = Ser(JObj([message |-> Msg(1)]))
    /\ result.out.kind = "ok" /\ result.out.value = JObj([message |-> Msg(1)])

\* C30: after a logout that got status_code 200 the session headers other
\* than Authorization are the ones the session was created with.
C30_LogoutKeepsOtherHeaders ==
    (/\ pc = "idle" /\ result.op = "logout" /\ result.out.kind = "ok"
     /\ Get(result.out.value[2], "status_code") = JInt(200))
        => \A h \in DOMAIN DefaultHeaders :
                h \in DOMAIN headers /\ headers[h] = DefaultHeaders[h]

\* C21: every invocation of a catalog method has made exactly one call of
\* the transport primitive when it ends, with the verb of its route and a
\* path that starts with the resource of its route.
C21_ExactlyOneCall ==
    fn.kind = "done"
        => /\ Len(fn.calls) = 1
           /\ \E r \in Routes :
                /\ r.op = fn.op
                /\ fn.calls[1].method = r.method
                /\ fn.calls[1].endpoint[1] = r.items[1][2][1]

\* C24: get_summary, get_schedules, get_current_schedules,
\* get_future_schedules and get_moves send one GET; with an empty or absent
\* mapping (or an empty date) the endpoint is the bare path and the request
\* URL holds no "?"; with a non-empty mapping (or a date) the endpoint is
\* the path, "?", and a query that splits at "&" and "=" into the escaped
\* pairs of the mapping, in order, and the request URL ends in it.
C24_OptionalFilter ==
    (/\ fn.kind \in {"sent", "done"}
     /\ fn.op \in {"get_summary", "get_schedules", "get_current_schedules",
                    "get_future_schedules", "get_moves"})
        => LET path == IF fn.op = "get_summary" THEN <<"clouds", "/", "summary">>
                       ELSE IF fn.op = "get_schedules" THEN <<"schedules">>
                       ELSE IF fn.op = "get_current_schedules"
                            THEN <<"schedules", "/", "current">>
                       ELSE IF fn.op = "get_future_schedules"
                            THEN <<"schedules", "/", "future">>
                       ELSE <<"moves">>
               m    == IF fn.op = "get_moves"
                       THEN IF fn.args.date = <<>> THEN NoData
                            ELSE << <<<<"date">>, fn.args.date>> >>
                       ELSE IF fn.args.given THEN fn.args.data ELSE NoData
               ep   == fn.calls[1].endpoint
               url  == fn.calls[1].url
               query == SubSeq(ep, Len(path) + 2, Len(ep))
               Unquote(str) == [i \in 1..Len(str) |->
                                  IF str[i] = "+" THEN " "
                                  ELSE IF str[i] = "%26" THEN "&"
                                  ELSE IF str[i] = "%3D" THEN "="
                                  ELSE IF str[i] = "%2B" THEN "+"
                                  ELSE str[i]]
               pieces == SplitOn(query, "&")
           IN  /\ Len(fn.calls) = 1
               /\ fn.calls[1].method = "GET"
               /\ url = fn.base \o ep
               /\ IF m = NoData
                  THEN /\ ep = path
                       /\ \A i \in 1..Len(url) : url[i] # "?"
                  ELSE /\ SubSeq(ep, 1, Len(path) + 1) = path \o <<"?">>
                       /\ Len(pieces) = Len(m)
                       /\ \A i \in 1..Len(pieces) :
                            LET kv == SplitOn(pieces[i], "=")
                            IN  /\ Len(kv) = 2
                                /\ Unquote(kv[1]) = m[i][1]
                                /\ Unquote(kv[2]) = m[i][2]

C24_Witness ==
    /\ fn.kind = "done" /\ fn.op = "get_summary" /\ fn.out = "ok"
    /\ fn.args.given /\ fn.args.data = NoData
    /\ fn.calls[1].endpoint = <<"clouds", "/", "summary">>
    /\ fn.calls[1].url = <<Origin, "/", "api", "/", "v3", "/", "clouds", "/", "summary">>

\* C29: an id-taking method called with an integer id does not fail before
\* its request is sent, and the request goes to the path that ends in the
\* decimal id.
C29_IdInPath ==
    (/\ fn.kind = "done"
     /\ fn.op \in {"get_schedule", "update_schedule", "remove_schedule", "get_vlan",
                    "update_vlan", "remove_memory", "remove_processor", "remove_disk"})
        => LET prefix == IF fn.op \in {"get_schedule", "update_schedule", "remove_schedule"}
                              THEN <<"schedules", "/">>
                         ELSE IF fn.op \in {"get_vlan", "update_vlan"} THEN <<"vlans", "/">>
                         ELSE IF fn.op = "remove_memory" THEN <<"memory", "/">>
                         ELSE IF fn.op = "remove_processor" THEN <<"processors", "/">>
                         ELSE <<"disks", "/">> \o fn.args.name \o <<"/">>
           IN  /\ fn.out # "TypeError"
               /\ Len(fn.calls) = 1
               /\ fn.calls[1].endpoint = prefix \o Decimal(fn.args.id)

====
